---------------------------- MODULE Spec2Model ----------------------------
(***************************************************************************)
(* Model of updater.py of opendatazurich/starter-code-generator: the batch *)
(* run that fetches the CKAN catalogue, explodes datasets to resources,    *)
(* cleans and classifies the rows, sorts them, renders one notebook and    *)
(* one R Markdown file per row and writes the overview.                    *)
(*                                                                         *)
(* Text is a sequence of symbols.  A symbol is one character ("a", "_",    *)
(* "\"", "\\") or one indivisible piece of fixed program or template text  *)
(* (a placeholder token such as "{{ FILE_URL }}", a path prefix).  A       *)
(* Python exception that nothing catches ends the run: pc = "crashed".     *)
(***************************************************************************)
EXTENDS Integers, Sequences, FiniteSets, TLC

\* ------------------------------------------------------------------------
\* Bounds of the model.
MaxDatasets == 2
Limit == 1

\* ------------------------------------------------------------------------
\* Null values.  None is a JSON null read by json.loads; NaN is the missing
\* value pandas fills in (explode of an empty list, unmatched left join).
None == <<"<None>">>
NaN == <<"<NaN>">>
IsNull(x) == x = None \/ x = NaN
IsStr(x) == ~IsNull(x)

\* ------------------------------------------------------------------------
\* Program constants.
PROVIDER == <<"OpenDataZurich">>
BASELINK_DATAPORTAL == <<"https://data.stadt-zuerich.ch/dataset/">>
REPO_RMARKDOWN_OUTPUT == <<"01_r-markdown/">>
REPO_PYTHON_OUTPUT == <<"02_python/">>
TEMP_PREFIX == <<"_work/">>
TODAY_DATE == <<"<today>">>
TITLE_MAX_CHARS == 200
KEYS_DATASET == <<"publisher", "maintainer", "maintainer_email", "keywords",
                  "tags", "metadata_created", "metadata_modified">>
RESOURCE_COLS_TO_KEEP == {"name", "filename", "format", "url", "id",
                          "resource_type", "package_id"}

\* ------------------------------------------------------------------------
\* Python string primitives.

\* Characters in code point order: str comparison, used by sort_values.
CodePoints == <<"\"", "'", "-", ".", "/", "0", "1", "2", "9",
                "C", "G", "J", "N", "O", "P", "S", "T", "V", "[", "\\", "]",
                "_", "a", "b", "c", "d", "e", "f", "g", "h", "i", "j", "k",
                "l", "m", "n", "o", "p", "q", "r", "s", "t", "u", "v", "w",
                "x", "y", "z", "{", "|">>
\* A placeholder token inside data text orders by its first character "{".
Ord(c) == IF \E i \in DOMAIN CodePoints : CodePoints[i] = c
          THEN CHOOSE i \in DOMAIN CodePoints : CodePoints[i] = c
          ELSE CHOOSE i \in DOMAIN CodePoints : CodePoints[i] = "{"

\* s < t: at the first position where they differ, s has ended or has the
\* smaller character.
StrLess(s, t) ==
    \E i \in 1..Len(t) :
        /\ \A j \in 1..(i - 1) : j <= Len(s) /\ s[j] = t[j]
        /\ (i > Len(s) \/ Ord(s[i]) < Ord(t[i]))

\* str.lower()
LowerChar(c) ==
    CASE c = "C" -> "c" [] c = "G" -> "g" [] c = "J" -> "j" [] c = "N" -> "n"
      [] c = "O" -> "o" [] c = "P" -> "p" [] c = "S" -> "s" [] c = "T" -> "t"
      [] c = "V" -> "v" [] OTHER -> c
Lower(s) == [i \in DOMAIN s |-> LowerChar(s[i])]

\* "".join(ss)
RECURSIVE Concat(_)
Concat(ss) ==
    IF ss = <<>> THEN <<>>
    ELSE IF Len(ss) = 1 THEN ss[1]
    ELSE LET h == Len(ss) \div 2
         IN Concat(SubSeq(ss, 1, h)) \o Concat(SubSeq(ss, h + 1, Len(ss)))

\* str.replace(old, new) and re.sub(old, new, s) for a one-symbol pattern.
RECURSIVE Replace(_, _, _)
Replace(s, old, new) ==
    IF \A i \in DOMAIN s : s[i] # old THEN s
    ELSE LET i == CHOOSE k \in DOMAIN s :
                      s[k] = old /\ \A j \in 1..(k - 1) : s[j] # old
         IN SubSeq(s, 1, i - 1) \o new
            \o Replace(SubSeq(s, i + 1, Len(s)), old, new)

\* sub in s
Contains(s, sub) ==
    \E i \in 0..(Len(s) - Len(sub)) : SubSeq(s, i + 1, i + Len(sub)) = sub

\* x in list
InList(x, list) == \E i \in DOMAIN list : list[i] = x

\* str(x) / f"{x}" of a scalar cell.
PyStr(x) == IF x = None THEN <<"N", "o", "n", "e">>
            ELSE IF x = NaN THEN <<"n", "a", "n">>
            ELSE x

\* repr of a list of str, as f"{list}" prints it.
ReprItems(list) ==
    Concat([i \in DOMAIN list |->
              <<"'">> \o list[i] \o <<"'">>
              \o (IF i < Len(list) THEN <<",", " ">> ELSE <<>>)])

\* A list-valued cell: a Python list, or NaN where pandas has no value.
List(items) == [na |-> FALSE, items |-> items]
NaNList == [na |-> TRUE, items |-> <<>>]
PyStrList(cell) == IF cell.na THEN PyStr(NaN)
                   ELSE <<"[">> \o ReprItems(cell.items) \o <<"]">>


SeqUpTo(S, n) == UNION {[1..k -> S] : k \in 0..n}

\* ------------------------------------------------------------------------
\* The catalogue the portal serves: the inputs of a run.

\* One resource of a package as current_package_list_with_resources gives it.
Resource(rid, rname, format, url, package_id) ==
    [id |-> rid, name |-> rname, filename |-> None, format |-> format,
     url |-> url, resource_type |-> None, package_id |-> package_id]

\* One package (dataset).
Dataset(id, name, title, notes, remarks, email, tagnames, groupnames, res) ==
    [id |-> id, name |-> name, title |-> title, notes |-> notes,
     sszBemerkungen |-> remarks, maintainer |-> <<"o">>,
     maintainer_email |-> email, author |-> <<"s", "s", "z">>,
     tags |-> List([i \in DOMAIN tagnames |-> [name |-> tagnames[i]]]),
     groups |-> List([i \in DOMAIN groupnames |->
                        [display_name |-> groupnames[i]]]),
     metadata_created |-> <<"2", "0", "2", "1">>,
     metadata_modified |-> <<"2", "0", "2", "2">>,
     resources |-> res]

stzh == <<"s", "t", "z", "h">>
geodaten == <<"g", "e", "o", "d", "a", "t", "e", "n">>
csv == <<"c", "s", "v">>
parquet == <<"p", "a", "r", "q", "u", "e", "t">>
geojson == <<"g", "e", "o", "j", "s", "o", "n">>
UrlCsv == <<"x", ".", "c", "s", "v">>
UrlGeo == <<"x", ".", "g", "e", "o", "j", "s", "o", "n">>
Id1 == <<"1">>
Id2 == <<"2">>
IdOrphan == <<"9">>
NameA == <<"a">>
NameAB == <<"a", "_", "b">>
RidC == <<"c">>
RidBC == <<"b", "_", "c">>
RidD == <<"d">>
RidE == <<"e">>

CsvRes(rid, pkg) == Resource(rid, <<"f">>, <<"C", "S", "V">>, UrlCsv, pkg)
GeoRes(rid, pkg) == Resource(rid, <<"g">>, <<"G", "e", "o", "J", "S", "O", "N">>, UrlGeo, pkg)
JsonRes(rid, pkg) ==
    Resource(rid, <<"h">>, <<"j", "s", "o", "n">>, <<"x", ".", "j", "s", "o", "n">>, pkg)
Plain(id, name, res) ==
    Dataset(id, name, <<"T">>, <<"n">>, <<"r">>, <<"m">>, <<stzh>>,
            <<<<"k">>>>, res)

\* ------------------------------------------------------------------------
\* dataset_to_resource

\* DataFrame.explode('resources'): one cell per resource, and one NaN cell
\* for a package whose resource list is empty.
ExplodeRow(d) ==
    IF d.resources = <<>> THEN <<[na |-> TRUE]>>
    ELSE [i \in DOMAIN d.resources |-> [na |-> FALSE, obj |-> d.resources[i]]]
Explode(packages) ==
    Concat([i \in DOMAIN packages |-> ExplodeRow(packages[i])])

\* pd.json_normalize(...)[resource_cols_to_keep].add_prefix("resources_"):
\* a NaN cell normalises to a row without values.
ResourceCols(cell) ==
    IF cell.na
    THEN [resources_name |-> NaN, resources_filename |-> NaN,
          resources_format |-> NaN, resources_url |-> NaN,
          resources_id |-> NaN, resources_resource_type |-> NaN,
          resources_package_id |-> NaN]
    ELSE [resources_name |-> cell.obj.name,
          resources_filename |-> cell.obj.filename,
          resources_format |-> cell.obj.format,
          resources_url |-> cell.obj.url,
          resources_id |-> cell.obj.id,
          resources_resource_type |-> cell.obj.resource_type,
          resources_package_id |-> cell.obj.package_id]

\* The package columns a merged row carries (the nested resources column is
\* read by no later stage and is left out of the row).
DatasetCols(d) ==
    [id |-> d.id, name |-> d.name, title |-> d.title, notes |-> d.notes,
     sszBemerkungen |-> d.sszBemerkungen, maintainer |-> d.maintainer,
     maintainer_email |-> d.maintainer_email, author |-> d.author,
     tags |-> d.tags, groups |-> d.groups,
     metadata_created |-> d.metadata_created,
     metadata_modified |-> d.metadata_modified]
NaNDatasetCols ==
    [id |-> NaN, name |-> NaN, title |-> NaN, notes |-> NaN,
     sszBemerkungen |-> NaN, maintainer |-> NaN, maintainer_email |-> NaN,
     author |-> NaN, tags |-> NaNList, groups |-> NaNList,
     metadata_created |-> NaN, metadata_modified |-> NaN]

\* resource_cols.merge(all_packages, how='left',
\*                     left_on='resources_package_id', right_on='id')
MergeMatches(rc, packages) ==
    SelectSeq(packages, LAMBDA d : d.id = rc.resources_package_id)
MergeRow(rc, packages) ==
    LET m == MergeMatches(rc, packages)
    IN IF m = <<>> THEN <<rc @@ NaNDatasetCols>>
       ELSE [i \in DOMAIN m |-> rc @@ DatasetCols(m[i])]
Merge(resource_cols, packages) ==
    Concat([i \in DOMAIN resource_cols |-> MergeRow(resource_cols[i], packages)])

\* A frame none of whose cells is a dict has no columns: selecting the
\* kept columns raises KeyError.
dataset_to_resource(packages) ==
    LET cells == Explode(packages)
    IN IF \A i \in DOMAIN cells : cells[i].na
       THEN [err |-> "KeyError", df |-> <<>>]
       ELSE [err |-> "",
             df |-> Merge([i \in DOMAIN cells |-> ResourceCols(cells[i])],
                          packages)]

\* ------------------------------------------------------------------------
\* clean_features

\* str.rstrip(sep) for a one-character sep.
RStrip(s, c) ==
    LET keep == {i \in DOMAIN s : s[i] # c}
    IN IF keep = {} THEN <<>>
       ELSE SubSeq(s, 1, CHOOSE i \in keep : \A j \in keep : j <= i)

Comma == ","
KeywordsLoop(x, sep) ==
    Concat([i \in DOMAIN x |-> x[i].display_name \o <<sep>>])
extract_keywords(x) == RStrip(KeywordsLoop(x, Comma), Comma)

\* Iterating a NaN cell, or adding None to a str, raises TypeError.
clean_features(data) ==
    IF \E i \in DOMAIN data : data[i].tags.na
    THEN [err |-> "TypeError", df |-> data]
    ELSE IF \E i \in DOMAIN data :
              \/ data[i].groups.na
              \/ \E j \in DOMAIN data[i].groups.items :
                    IsNull(data[i].groups.items[j].display_name)
    THEN [err |-> "TypeError", df |-> data]
    ELSE [err |-> "",
          df |-> [i \in DOMAIN data |->
                    [publisher |-> data[i].author,
                     keywords |-> extract_keywords(data[i].groups.items),
                     tags |-> List([j \in DOMAIN data[i].tags.items |->
                                      data[i].tags.items[j].name])]
                    @@ data[i]]]

\* ------------------------------------------------------------------------
\* filter_resources

table_data == <<"table_data">>
geo_data == <<"geo_data">>
table_formats == {csv, parquet}

\* The format compared as it is spelled.
IsTableRowCaseSensitive(r) ==
    /\ IsStr(r.resources_format)
    /\ r.resources_format \in table_formats
    /\ ~InList(geodaten, r.tags.items)
\* The mask of the table_data assignment.
IsTableRow(r) ==
    /\ IsStr(r.resources_format)
    /\ Lower(r.resources_format) \in table_formats
    /\ ~InList(geodaten, r.tags.items)

\* The mask of the geo_data assignment.
IsGeoRow(r) ==
    /\ IsStr(r.resources_url)
    /\ Contains(r.resources_url, geojson)
    /\ InList(stzh, r.tags.items)

\* The first matching category kept.
ClassifyFirstWins(r) ==
    IF IsTableRow(r) THEN table_data
    ELSE IF IsGeoRow(r) THEN geo_data ELSE NaN
\* The two assignments to the format_filter column, in order.
Classify(r) ==
    LET first == IF IsTableRow(r) THEN table_data ELSE NaN
    IN IF IsGeoRow(r) THEN geo_data ELSE first

\* The classified table returned whole.
filter_resources_keeps_all(data) ==
    [i \in DOMAIN data |-> [format_filter |-> Classify(data[i])] @@ data[i]]
filter_resources(data) ==
    SelectSeq([i \in DOMAIN data |->
                 [format_filter |-> Classify(data[i])] @@ data[i]],
              LAMBDA r : ~IsNull(r.format_filter))

\* ------------------------------------------------------------------------
\* prepare_data_for_codebooks

\* "".join(f"- **{k.capitalize()}** BT{data.loc[idx, k]}BT\n" for k in
\* KEYS_DATASET), BT the backtick, written here as the symbol "<backtick>".
Metadata(r) ==
    <<"- **Publisher** ", "<backtick>">> \o PyStr(r.publisher) \o <<"<backtick>", "\n">>
    \o <<"- **Maintainer** ", "<backtick>">> \o PyStr(r.maintainer) \o <<"<backtick>", "\n">>
    \o <<"- **Maintainer_email** ", "<backtick>">> \o PyStr(r.maintainer_email) \o <<"<backtick>", "\n">>
    \o <<"- **Keywords** ", "<backtick>">> \o PyStr(r.keywords) \o <<"<backtick>", "\n">>
    \o <<"- **Tags** ", "<backtick>">> \o PyStrList(r.tags) \o <<"<backtick>", "\n">>
    \o <<"- **Metadata_created** ", "<backtick>">> \o PyStr(r.metadata_created) \o <<"<backtick>", "\n">>
    \o <<"- **Metadata_modified** ", "<backtick>">> \o PyStr(r.metadata_modified) \o <<"<backtick>", "\n">>

\* Order of one sort key: str order, missing values last and equal.
KeyLess(x, y) == IsStr(x) /\ (IsNull(y) \/ StrLess(x, y))
KeyEq(x, y) == (IsNull(x) /\ IsNull(y)) \/ (IsStr(x) /\ IsStr(y) /\ x = y)

\* by=['title', 'name', 'resources_name']
RowLess(a, b) ==
    \/ KeyLess(a.title, b.title)
    \/ /\ KeyEq(a.title, b.title)
       /\ \/ KeyLess(a.name, b.name)
          \/ /\ KeyEq(a.name, b.name)
             /\ KeyLess(a.resources_name, b.resources_name)

\* The rows left in the order they came in.
SortRowsKeepsOrder(rows, acc) == acc \o rows

\* sort_values on several keys is a stable sort: a row goes after the
\* rows not greater than it.
RECURSIVE InsertRow(_, _)
InsertRow(sorted, r) ==
    IF sorted = <<>> THEN <<r>>
    ELSE IF RowLess(r, Head(sorted)) THEN <<r>> \o sorted
    ELSE <<Head(sorted)>> \o InsertRow(Tail(sorted), r)
RECURSIVE SortRows(_, _)
SortRows(rows, acc) ==
    IF rows = <<>> THEN acc
    ELSE SortRows(Tail(rows), InsertRow(acc, Head(rows)))

prepare_data_for_codebooks(data) ==
    SortRows([i \in DOMAIN data |->
                [metadata |-> Metadata(data[i]), contact |-> <<>>,
                 distributions |-> None, distribution_links |-> None,
                 description |-> data[i].notes] @@ data[i]],
             <<>>)

\* ------------------------------------------------------------------------
\* Templates (files of _templates/, which are not part of the sources).
\* The notebook template is a JSON array of strings, one per placeholder;
\* the R Markdown template is plain text.
TEMPLATE_PYTHON == "template_python.ipynb"
TEMPLATE_PYTHON_GEO == "template_python_geo.ipynb"
TEMPLATE_RMARKDOWN == "template_rmarkdown.Rmd"
TEMPLATE_RMARKDOWN_GEO == "template_rmarkdown_geo.Rmd"

NotebookBody(code) ==
    <<"[", "\"", "{{ PROVIDER }}", "\"", ",",
      "\"", "{{ DATASET_TITLE }}", "\"", ",",
      "\"", "{{ DATASET_DESCRIPTION }}", "\"", ",",
      "\"", "{{ SSZ_COMMENTS }}", "\"", ",",
      "\"", "{{ DATASET_IDENTIFIER }}", "\"", ",",
      "\"", "{{ DATASET_METADATA }}", "\"", ",",
      "\"", "{{ DATASHOP_LINK_PROVIDER }}", "\"", ",",
      "\"", "{{ CONTACT }}", "\"", ",",
      "\"", code, "{{ FILE_URL }}", "\"", "]">>
RmdBody(code) ==
    <<"title: ", "{{ DOCUMENT_TITLE }}", "\n",
      "date: ", "{{ TODAY_DATE }}", "\n",
      "# ", "{{ DATASET_TITLE }}", "\n",
      "{{ DATASET_DESCRIPTION }}", "\n",
      "{{ SSZ_COMMENTS }}", "\n",
      "{{ DATASET_IDENTIFIER }}", "\n",
      "{{ DATASET_METADATA }}", "\n",
      "{{ DATASHOP_LINK_PROVIDER }}", "\n",
      "{{ CONTACT }}", "\n",
      code, "{{ FILE_URL }}", "\n">>
ReadTemplate(name) ==
    CASE name = TEMPLATE_PYTHON -> NotebookBody("pd.read_csv ")
      [] name = TEMPLATE_PYTHON_GEO -> NotebookBody("gpd.read_file ")
      [] name = TEMPLATE_RMARKDOWN -> RmdBody("read_csv ")
      [] name = TEMPLATE_RMARKDOWN_GEO -> RmdBody("st_read ")

\* ------------------------------------------------------------------------
\* json.loads(text, strict=False) and json.dumps of an array of strings.
JsonFail == [ok |-> FALSE, value |-> <<>>]

\* The character an escape sequence \c stands for.
Unescape(c) ==
    CASE c = "\"" -> <<"\"">> [] c = "\\" -> <<"\\">> [] c = "/" -> <<"/">>
      [] c = "b" -> <<"<BS>">> [] c = "f" -> <<"<FF>">>
      [] c = "n" -> <<"\n">> [] c = "r" -> <<"<CR>">> [] c = "t" -> <<"<TAB>">>
      [] OTHER -> <<>>

\* The backslashes right before position i.
BackslashRun(s, i) ==
    CHOOSE k \in 0..(i - 1) :
        /\ \A j \in 1..k : s[i - j] = "\\"
        /\ (k = i - 1 \/ s[i - 1 - k] # "\\")
\* Position i holds the backslash that starts an escape sequence.
StartsEscape(s, i) == s[i] = "\\" /\ BackslashRun(s, i) % 2 = 0
\* Position i holds the character of an escape sequence.
IsEscaped(s, i) == BackslashRun(s, i) % 2 = 1

\* The string whose opening quote is at position p - 1: it ends at the first
\* quote that is not escaped and every escape sequence in it must be known.
ParseString(s, p) ==
    LET ends == {i \in p..Len(s) : s[i] = "\"" /\ ~IsEscaped(s, i)}
        q == CHOOSE i \in ends : \A k \in ends : i <= k
    IN IF ends = {} THEN [ok |-> FALSE, str |-> <<>>, next |-> 0]
       ELSE IF \E i \in p..(q - 1) :
                  StartsEscape(s, i) /\ Unescape(s[i + 1]) = <<>>
       THEN [ok |-> FALSE, str |-> <<>>, next |-> 0]
       ELSE [ok |-> TRUE, next |-> q + 1,
             str |-> Concat([k \in 1..(q - p) |->
                       LET i == p + k - 1
                       IN IF StartsEscape(s, i) THEN <<>>
                          ELSE IF IsEscaped(s, i) THEN Unescape(s[i])
                          ELSE <<s[i]>>])]

\* Position p follows "[" or ","; an element must be a string, and nothing
\* may follow the closing "]".
RECURSIVE ParseItems(_, _, _)
ParseItems(s, p, acc) ==
    IF p > Len(s) \/ s[p] # "\"" THEN JsonFail
    ELSE LET e == ParseString(s, p + 1)
         IN IF ~e.ok \/ e.next > Len(s) THEN JsonFail
            ELSE IF s[e.next] = ","
            THEN ParseItems(s, e.next + 1, Append(acc, e.str))
            ELSE IF s[e.next] = "]" /\ e.next = Len(s)
            THEN [ok |-> TRUE, value |-> Append(acc, e.str)]
            ELSE JsonFail

JsonLoads(text) ==
    IF text = <<>> \/ text[1] # "[" THEN JsonFail
    ELSE IF text = <<"[", "]">> THEN [ok |-> TRUE, value |-> <<>>]
    ELSE ParseItems(text, 2, <<>>)

EscapeChar(c) ==
    CASE c = "\"" -> <<"\\", "\"">> [] c = "\\" -> <<"\\", "\\">>
      [] c = "<BS>" -> <<"\\", "b">> [] c = "<FF>" -> <<"\\", "f">>
      [] c = "\n" -> <<"\\", "n">> [] c = "<CR>" -> <<"\\", "r">>
      [] c = "<TAB>" -> <<"\\", "t">> [] OTHER -> <<c>>
EscapeStr(s) == Concat([i \in DOMAIN s |-> EscapeChar(s[i])])
DumpItems(list) ==
    Concat([i \in DOMAIN list |->
              <<"\"">> \o EscapeStr(list[i]) \o <<"\"">>
              \o (IF i < Len(list) THEN <<",", " ">> ELSE <<>>)])
JsonDumps(list) == <<"[">> \o DumpItems(list) \o <<"]">>

\* ------------------------------------------------------------------------
\* create_python_notebooks and create_rmarkdown: one row.

\* re.sub('"', "'", x) and re.sub("\\\\", "|", x)
SubQuote(x) == Replace(x, "\"", <<"'">>)
SubBackslash(x) == Replace(x, "\\", <<"|">>)

\* A file name without the resource id.
FileStemNameOnly(r) == PyStr(r.name)
\* {name}_{resources_id}, the stem of a row's output files.
FileStem(r) == PyStr(r.name) \o <<"_">> \o PyStr(r.resources_id)
PythonPath(r) ==
    TEMP_PREFIX \o REPO_PYTHON_OUTPUT \o FileStem(r) \o <<".ipynb">>
RmarkdownPath(r) ==
    TEMP_PREFIX \o REPO_RMARKDOWN_OUTPUT \o FileStem(r) \o <<".Rmd">>

\* One replace call: the token, the text put in its place, and whether
\* computing the text and calling replace succeeds (re.sub and str.replace
\* raise TypeError when given None or NaN instead of a str).
Step(tok, ok, val) == [tok |-> tok, ok |-> ok, val |-> IF ok THEN val ELSE <<>>]

PythonSteps(r) ==
    << Step("{{ PROVIDER }}", TRUE, PROVIDER),
       Step("{{ DATASET_TITLE }}", IsStr(r.title), SubQuote(r.title)),
       Step("{{ DATASET_DESCRIPTION }}", IsStr(r.description),
            SubBackslash(SubQuote(r.description))),
       Step("{{ SSZ_COMMENTS }}", TRUE,
            SubBackslash(SubQuote(PyStr(r.sszBemerkungen)))),
       Step("{{ DATASET_IDENTIFIER }}", IsStr(r.name), r.name),
       Step("{{ DATASET_METADATA }}", IsStr(r.metadata), SubQuote(r.metadata)),
       Step("{{ DATASHOP_LINK_PROVIDER }}", TRUE,
            <<"[Direct link by ">> \o PROVIDER \o <<" for dataset](">>
            \o BASELINK_DATAPORTAL \o PyStr(r.name) \o <<")", "\n", "\n">>
            \o PyStr(r.resources_url)),
       Step("{{ CONTACT }}", IsStr(r.maintainer_email), r.maintainer_email),
       Step("{{ FILE_URL }}", IsStr(r.resources_url), r.resources_url) >>

RmarkdownSteps(r) ==
    << Step("{{ DOCUMENT_TITLE }}", TRUE,
            <<"Open Government Data, ">> \o PROVIDER),
       Step("{{ DATASET_TITLE }}", IsStr(r.title), SubQuote(r.title)),
       Step("{{ TODAY_DATE }}", TRUE, TODAY_DATE),
       Step("{{ DATASET_IDENTIFIER }}", IsStr(r.name), r.name),
       Step("{{ DATASET_DESCRIPTION }}", IsStr(r.description),
            SubBackslash(SubQuote(r.description))),
       Step("{{ SSZ_COMMENTS }}", TRUE,
            SubBackslash(SubQuote(PyStr(r.sszBemerkungen)))),
       Step("{{ DATASET_METADATA }}", IsStr(r.metadata), r.metadata),
       Step("{{ CONTACT }}", IsStr(r.maintainer_email), r.maintainer_email),
       Step("{{ DATASHOP_LINK_PROVIDER }}", TRUE,
            <<"[Direct link by **">> \o PROVIDER \o <<"** for dataset](">>
            \o BASELINK_DATAPORTAL \o PyStr(r.name) \o <<")">>),
       Step("{{ FILE_URL }}", IsStr(r.resources_url), r.resources_url) >>

\* The replace calls in order, up to the first that raises.
RECURSIVE Substitute(_, _, _)
Substitute(text, steps, done) ==
    IF steps = <<>> THEN [err |-> "", text |-> text, subst |-> done]
    ELSE IF ~Head(steps).ok
    THEN [err |-> "TypeError", text |-> text, subst |-> done]
    ELSE Substitute(Replace(text, Head(steps).tok, Head(steps).val),
                    Tail(steps),
                    done \cup {<<Head(steps).tok, Head(steps).val>>})

\* The body of the loop of create_python_notebooks for row r.
RenderPython(r, notebook_template) ==
    LET s == Substitute(ReadTemplate(notebook_template), PythonSteps(r), {})
        py_nb == JsonLoads(s.text)
    IN IF s.err # "" THEN [err |-> s.err, subst |-> s.subst,
                           path |-> <<>>, content |-> <<>>]
       ELSE IF ~py_nb.ok THEN [err |-> "JSONDecodeError", subst |-> s.subst,
                               path |-> <<>>, content |-> <<>>]
       ELSE [err |-> "", subst |-> s.subst,
             path |-> PythonPath(r),
             content |-> JsonDumps(py_nb.value)]

\* The body of the loop of create_rmarkdown for row r.
RenderRmarkdown(r, notebook_template) ==
    LET s == Substitute(ReadTemplate(notebook_template), RmarkdownSteps(r), {})
    IN IF s.err # "" THEN [err |-> s.err, subst |-> s.subst,
                           path |-> <<>>, content |-> <<>>]
       ELSE [err |-> "", subst |-> s.subst,
             path |-> RmarkdownPath(r),
             content |-> s.text]

\* df[df['format_filter'] == category]
Category(data, category) ==
    SelectSeq(data, LAMBDA r : r.format_filter = category)

\* ------------------------------------------------------------------------
\* get_header, create_readme and create_overview

\* The header and the README are fixed text around the row count.
get_header(dataset_count) == <<"<header>", ToString(dataset_count), "\n">>
Readme(dataset_count) == <<"<readme>", ToString(dataset_count), "\n">>

\* The title cut one character early.
TitleCleanCutsAtMax(title) ==
    LET t == Replace(Replace(title, "[", <<" ">>), "]", <<" ">>)
    IN IF Len(t) >= TITLE_MAX_CHARS
       THEN SubSeq(t, 1, TITLE_MAX_CHARS) \o <<"<ellipsis>">>
       ELSE t
\* title_clean: brackets to spaces, then the cut.
TitleClean(title) ==
    LET t == Replace(Replace(title, "[", <<" ">>), "]", <<" ">>)
    IN IF Len(t) > TITLE_MAX_CHARS
       THEN SubSeq(t, 1, TITLE_MAX_CHARS) \o <<"<ellipsis>">>
       ELSE t

\* A row on which the loop body raises AttributeError: a method called on a
\* missing title, url or format.
OverviewRaises(r) ==
    IsNull(r.title) \/ IsNull(r.resources_url) \/ IsNull(r.resources_format)

OverviewLine(r) ==
    LET resource_filename == IF IsStr(r.resources_name) THEN r.resources_name
                             ELSE <<"No filename provided">>
        ds_link == BASELINK_DATAPORTAL \o PyStr(r.name)
        filename == FileStem(r)
        download_url == Replace(r.resources_url, "-", <<"%", "2", "0">>)
        fileformat == Lower(r.resources_format)
        sql == IF fileformat \in {csv, parquet}
               THEN <<"[SQL](">> \o r.name \o <<",read_">> \o fileformat
                    \o <<"(">> \o download_url \o <<"))">>
               ELSE <<>>
    IN <<"| [">> \o TitleClean(r.title) \o <<"](">> \o ds_link \o <<") | ">>
       \o <<"[Colab](">> \o filename \o <<".ipynb) | ">>
       \o <<"[Renku](PACKAGE_ID=">> \o PyStr(r.name) \o <<"&RESOURCE_ID=">>
       \o PyStr(r.resources_id) \o <<") | ">>
       \o <<"[Python GitHub](">> \o filename \o <<".ipynb) | ">>
       \o <<"[R GitHub](">> \o filename \o <<".Rmd) | ">>
       \o sql \o <<" | ">> \o resource_filename \o <<" |", "\n">>

OverviewLines(data) == [i \in DOMAIN data |-> OverviewLine(data[i])]

create_overview(data, header) ==
    IF \E i \in DOMAIN data : OverviewRaises(data[i])
    THEN [err |-> "AttributeError", content |-> <<>>]
    ELSE [err |-> "",
          content |-> header \o <<"| Title | ... |", "\n", "| :-- |", "\n">>
                      \o Concat(OverviewLines(data))]

\* ------------------------------------------------------------------------
\* Catalogues a run is checked on.

\* Packages that differ in identifiers and in their resource lists.
IdNames == {<<Id1, NameA>>, <<Id2, NameAB>>}
ResourceLists(pkg) ==
    {<<>>, <<CsvRes(RidC, pkg)>>, <<GeoRes(RidBC, pkg)>>,
     <<CsvRes(RidC, pkg), GeoRes(RidBC, pkg)>>,
     <<CsvRes(RidC, pkg), CsvRes(RidC, pkg)>>,
     <<JsonRes(RidE, pkg), GeoRes(RidD, pkg), CsvRes(RidC, pkg)>>}
IdentityDatasets ==
    UNION {{Plain(p[1], p[2], rs) : rs \in ResourceLists(p[1])} : p \in IdNames}
IdentityCatalogs == SeqUpTo(IdentityDatasets, MaxDatasets)

\* Resources whose package_id names another package, no package, or is null.
StrayCatalogs ==
    {<<Plain(Id1, NameA, <<CsvRes(RidC, pkg)>>)>> : pkg \in {IdOrphan, None}}
    \cup {<<Plain(Id1, NameA, <<CsvRes(RidC, Id1), CsvRes(RidBC, IdOrphan)>>)>>,
          <<Plain(Id1, NameA, <<CsvRes(RidC, Id2)>>),
            Plain(Id2, NameAB, <<CsvRes(RidC, Id2)>>)>>}

\* One package with one resource, over formats, URLs and tag lists.
Formats == {<<"C", "S", "V">>, csv, <<"P", "a", "r", "q", "u", "e", "t">>,
            <<"G", "e", "o", "J", "S", "O", "N">>, None}
Urls == {UrlCsv, UrlGeo, None}
TagLists == {<<>>, <<geodaten>>, <<stzh>>, <<geodaten, stzh>>}
ClassifyCatalogs ==
    {<<Dataset(Id1, NameA, <<"T">>, <<"n">>, <<"r">>, <<"m">>, tg, <<<<"k">>>>,
               <<Resource(RidC, <<"f">>, f, u, Id1)>>)>> :
        f \in Formats, u \in Urls, tg \in TagLists}

\* Packages over free-text fields, alone and before or after a plain one.
Texts == {<<"a", "\"", "b">>, <<"a", "\\", "c">>, <<"a", "\\", "b">>,
          <<"a", "\\">>, None}
TextDatasets ==
    {Dataset(Id1, NameA, t, <<"n">>, <<"r">>, <<"m">>, <<stzh>>, <<>>,
             <<CsvRes(RidC, Id1)>>) : t \in Texts}
    \cup {Dataset(Id1, NameA, <<"T">>, t, <<"r">>, <<"m">>, <<stzh>>, <<>>,
                  <<CsvRes(RidC, Id1)>>) : t \in Texts}
    \cup {Dataset(Id1, NameA, <<"T">>, <<"n">>, t, <<"m">>, <<stzh>>, <<>>,
                  <<CsvRes(RidC, Id1)>>) : t \in Texts}
    \cup {Dataset(Id1, NameA, <<"T">>, <<"n">>, <<"r">>, None, <<stzh>>, <<>>,
                  <<CsvRes(RidC, Id1)>>),
          Dataset(Id1, NameA, <<"T">>, <<"n">>, <<"r">>, <<"m">>, <<stzh>>,
                  <<>>, <<Resource(RidC, None, csv, None, Id1)>>),
          Dataset(Id1, NameA, <<"T">>, <<"n">>, <<"r">>, <<"m">>, <<stzh>>,
                  <<>>, <<Resource(RidC, <<"f">>, None, UrlGeo, Id1)>>)}
TextCatalogs ==
    {<<d>> : d \in TextDatasets}
    \cup {<<d, Plain(Id2, NameAB, <<CsvRes(RidC, Id2), GeoRes(RidBC, Id2)>>)>> :
             d \in TextDatasets}

\* Titles at, above and below TITLE_MAX_CHARS, with and without brackets.
Xs(n) == [i \in 1..n |-> "x"]
Titles == {Xs(TITLE_MAX_CHARS), Xs(TITLE_MAX_CHARS + 1),
           <<"[">> \o Xs(TITLE_MAX_CHARS), <<"a", "[", "b", "]">>}
TitleCatalogs ==
    {<<Dataset(Id1, NameA, t, <<"n">>, <<"r">>, <<"m">>, <<stzh>>, <<>>,
               <<CsvRes(RidC, Id1)>>)>> : t \in Titles}

\* Two resources of one package with the same display name.
SortCatalogs ==
    {<<Plain(Id1, NameA, <<CsvRes(RidD, Id1), CsvRes(RidC, Id1)>>)>>,
     <<Plain(Id1, NameA, <<CsvRes(RidC, Id1), CsvRes(RidD, Id1)>>)>>}

\* One package over lists of groups: none, one, two, and display names
\* that are empty or end with the separator.
GroupLists == {<<>>, <<<<"k">>>>, <<<<"k">>, <<"l">>>>, <<<<"k", ",">>>>,
               <<<<"k">>, <<>>>>, <<<<>>>>}
KeywordCatalogs ==
    {<<Dataset(Id1, NameA, <<"T">>, <<"n">>, <<"r">>, <<"m">>, <<stzh>>, gs,
               <<CsvRes(RidC, Id1)>>)>> : gs \in GroupLists}

\* One package whose title or description is itself a placeholder token,
\* one replaced later than the field and one replaced earlier.
TokenCatalogs ==
    {<<Dataset(Id1, NameA, <<"{{ FILE_URL }}">>, <<"n">>, <<"r">>, <<"m">>,
               <<stzh>>, <<>>, <<CsvRes(RidC, Id1)>>)>>,
     <<Dataset(Id1, NameA, <<"T">>, <<"{{ PROVIDER }}">>, <<"r">>, <<"m">>,
               <<stzh>>, <<>>, <<CsvRes(RidC, Id1)>>)>>,
     <<Dataset(Id1, NameA, <<"T">>, <<"{{ DATASET_TITLE }}">>, <<"r">>,
               <<"m">>, <<stzh>>, <<>>, <<GeoRes(RidC, Id1)>>)>>}

Catalogs == IdentityCatalogs \cup StrayCatalogs \cup ClassifyCatalogs
            \cup TextCatalogs \cup TitleCatalogs \cup SortCatalogs
            \cup KeywordCatalogs \cup TokenCatalogs

\* ------------------------------------------------------------------------
\* The run.
VARIABLES
    catalog,       \* the packages the portal holds
    offset,        \* get_full_package_list: offset of the next request
    frames,        \* get_full_package_list: the pages read
    all_packages,  \* the snapshot
    df,            \* the table of the main program
    pc,            \* the statement of the main program that runs next
    idx,           \* position of the loop of create_*
    files,         \* the files written, path to content
    subst,         \* the texts the last loop body put into its template
    error          \* the uncaught exception that ended the run, or ""

vars == <<catalog, offset, frames, all_packages, df, pc, idx, files, subst,
          error>>

Init ==
    /\ catalog \in Catalogs
    /\ offset = 0
    /\ frames = <<>>
    /\ all_packages = <<>>
    /\ df = <<>>
    /\ pc = "get_full_package_list"
    /\ idx = 1
    /\ files = <<>>
    /\ subst = {}
    /\ error = ""

Running(stmt) == pc = stmt /\ error = ""

\* The exception leaves the run where it was raised.
Raise(e) == error' = e /\ UNCHANGED pc

\* Only the page at offset 0 is served.
PageFirstOnly(off) ==
    IF off >= Limit \/ off >= Len(catalog) THEN <<>>
    ELSE SubSeq(catalog, off + 1,
                IF off + Limit < Len(catalog) THEN off + Limit
                ELSE Len(catalog))

\* One request of the loop of get_full_package_list; after the empty page,
\* pd.concat (which raises ValueError on no frames at all).
Page(off) ==
    IF off >= Len(catalog) THEN <<>>
    ELSE SubSeq(catalog, off + 1,
                IF off + Limit < Len(catalog) THEN off + Limit
                ELSE Len(catalog))

GetFullPackageList ==
    /\ Running("get_full_package_list")
    /\ IF Page(offset) # <<>>
       THEN /\ frames' = Append(frames, Page(offset))
            /\ offset' = offset + Limit
            /\ UNCHANGED <<all_packages, pc, error>>
       ELSE IF frames = <<>>
       THEN /\ Raise("ValueError")
            /\ UNCHANGED <<frames, offset, all_packages>>
       ELSE /\ all_packages' = Concat(frames)
            /\ pc' = "dataset_to_resource"
            /\ UNCHANGED <<frames, offset, error>>
    /\ UNCHANGED <<catalog, df, idx, files, subst>>

\* A stage of the main program that maps the table, or raises.
TableStage(res, next) ==
    /\ IF res.err # ""
       THEN Raise(res.err) /\ UNCHANGED df
       ELSE df' = res.df /\ pc' = next /\ UNCHANGED error
    /\ UNCHANGED <<catalog, offset, frames, all_packages, idx, files, subst>>

DatasetToResource ==
    /\ Running("dataset_to_resource")
    /\ TableStage(dataset_to_resource(all_packages), "clean_features")

CleanFeatures ==
    /\ Running("clean_features")
    /\ TableStage(clean_features(df), "filter_resources")

FilterResources ==
    /\ Running("filter_resources")
    /\ TableStage([err |-> "", df |-> filter_resources(df)],
                  "prepare_data_for_codebooks")

PrepareDataForCodebooks ==
    /\ Running("prepare_data_for_codebooks")
    /\ TableStage([err |-> "", df |-> prepare_data_for_codebooks(df)],
                  "python_table")

\* One turn of the loop of create_python_notebooks or create_rmarkdown over
\* data: the body for the row at idx, or the return after the last row.
\* python tells which of the two functions is running.
CreateLoop(data, python, notebook_template, next) ==
    /\ IF idx > Len(data)
       THEN /\ pc' = next
            /\ idx' = 1
            /\ UNCHANGED <<files, subst, error>>
       ELSE LET res == IF python
                       THEN RenderPython(data[idx], notebook_template)
                       ELSE RenderRmarkdown(data[idx], notebook_template)
            IN /\ subst' = res.subst
               /\ IF res.err # ""
                  THEN Raise(res.err) /\ UNCHANGED <<idx, files>>
                  ELSE /\ files' = (res.path :> res.content) @@ files
                       /\ idx' = idx + 1
                       /\ UNCHANGED <<pc, error>>
    /\ UNCHANGED <<catalog, offset, frames, all_packages, df>>

df_tabledata == Category(df, table_data)
df_geodata == Category(df, geo_data)

PythonTable ==
    /\ Running("python_table")
    /\ CreateLoop(df_tabledata, TRUE, TEMPLATE_PYTHON, "rmarkdown_table")

RmarkdownTable ==
    /\ Running("rmarkdown_table")
    /\ CreateLoop(df_tabledata, FALSE, TEMPLATE_RMARKDOWN, "python_geo")

PythonGeo ==
    /\ Running("python_geo")
    /\ CreateLoop(df_geodata, TRUE, TEMPLATE_PYTHON_GEO, "rmarkdown_geo")

RmarkdownGeo ==
    /\ Running("rmarkdown_geo")
    /\ CreateLoop(df_geodata, FALSE, TEMPLATE_RMARKDOWN_GEO, "create_readme")

ReadmePath == TEMP_PREFIX \o <<"README.md">>
IndexPath == TEMP_PREFIX \o <<"index.md">>

\* header = get_header(len(df)); create_readme(len(df))
CreateReadme ==
    /\ Running("create_readme")
    /\ files' = (ReadmePath :> Readme(Len(df))) @@ files
    /\ pc' = "create_overview"
    /\ UNCHANGED <<catalog, offset, frames, all_packages, df, idx, subst,
                   error>>

CreateOverview ==
    /\ Running("create_overview")
    /\ LET res == create_overview(df, get_header(Len(df)))
       IN IF res.err # ""
          THEN Raise(res.err) /\ UNCHANGED files
          ELSE /\ files' = (IndexPath :> res.content) @@ files
               /\ pc' = "done"
               /\ UNCHANGED error
    /\ UNCHANGED <<catalog, offset, frames, all_packages, df, idx, subst>>

Next ==
    \/ GetFullPackageList
    \/ DatasetToResource
    \/ CleanFeatures
    \/ FilterResources
    \/ PrepareDataForCodebooks
    \/ PythonTable
    \/ RmarkdownTable
    \/ PythonGeo
    \/ RmarkdownGeo
    \/ CreateReadme
    \/ CreateOverview

Spec == Init /\ [][Next]_vars

\* ------------------------------------------------------------------------
\* Properties of the run.

RenderStages == {"python_table", "rmarkdown_table", "python_geo",
                 "rmarkdown_geo"}
AfterSort == RenderStages \cup {"create_readme", "create_overview", "done"}
AfterFilter == AfterSort \cup {"prepare_data_for_codebooks"}

\* The package columns of a merged row.
RowDataset(r) == [f \in DOMAIN NaNDatasetCols |-> r[f]]
\* The resources of the packages of the snapshot that carry the fields d.
ResourcesOf(d) ==
    Concat([k \in DOMAIN all_packages |->
              IF DatasetCols(all_packages[k]) = d
              THEN all_packages[k].resources ELSE <<>>])

\* Every resource of the snapshot names the package it is listed in.
BackReferencesHold ==
    \A k \in DOMAIN all_packages :
        \A n \in DOMAIN all_packages[k].resources :
            all_packages[k].resources[n].package_id = all_packages[k].id

\* C1: on a snapshot whose resources name their own package,
\* dataset_to_resource raises nothing and yields, for every package with
\* N >= 0 resources, exactly N rows carrying that package's fields (the
\* resources of a package listed twice counted together), and no other row.
C1_ExactlyNRowsPerDataset ==
    /\ pc = "dataset_to_resource" => error = ""
    /\ (pc = "clean_features" /\ BackReferencesHold) =>
          /\ \A k \in DOMAIN all_packages :
                LET d == DatasetCols(all_packages[k])
                IN Cardinality({i \in DOMAIN df : RowDataset(df[i]) = d})
                   = Len(ResourcesOf(d))
          /\ Len(df) = Len(Concat([k \in DOMAIN all_packages |->
                                     all_packages[k].resources]))

\* C2: a run in which two rows of the table have the same composite
\* identifier {name}_{resources_id} does not complete normally: it ends in
\* a KeyCollision instead of writing one row's documents over the other's.
C2_KeyCollisionIsFatal ==
    pc = "done" =>
        \A i, j \in DOMAIN df : i # j => FileStem(df[i]) # FileStem(df[j])

\* The catalogue is well formed: package ids and names are unique, resource
\* ids are unique within a package, every resource names its own package.
UniqueIdentifiers ==
    /\ \A i, j \in DOMAIN catalog :
          i # j => /\ catalog[i].id # catalog[j].id
                   /\ catalog[i].name # catalog[j].name
    /\ \A i \in DOMAIN catalog :
          LET res == catalog[i].resources
          IN /\ \A k, l \in DOMAIN res : k # l => res[k].id # res[l].id
             /\ \A k \in DOMAIN res : res[k].package_id = catalog[i].id
\* No resource id is missing or holds the separator "_".
NoUnderscoreInResourceIds ==
    \A i \in DOMAIN catalog :
        \A k \in DOMAIN catalog[i].resources :
            LET rid == catalog[i].resources[k].id
            IN IsStr(rid) /\ ~InList("_", rid)
DistinctStems ==
    \A i, j \in DOMAIN df : i # j => FileStem(df[i]) # FileStem(df[j])

\* C3 as claimed: on a well-formed catalogue the composite identifiers of
\* the rows of the sorted table are pairwise distinct.
C3_StemsDistinctWhenIdsUnique ==
    (pc \in AfterSort /\ UniqueIdentifiers) => DistinctStems

\* C3 as amended: on a well-formed catalogue none of whose resource ids
\* holds an underscore, the composite identifiers of the rows of the sorted
\* table are pairwise distinct.
C3_StemsDistinctWithoutUnderscore ==
    (pc \in AfterSort /\ UniqueIdentifiers /\ NoUnderscoreInResourceIds)
        => DistinctStems
C3_Witness ==
    /\ pc = "done"
    /\ UniqueIdentifiers /\ NoUnderscoreInResourceIds
    /\ \E i, j \in DOMAIN df :
          /\ df[i].name # df[j].name
          /\ InList("_", df[i].name)
          /\ df[i].resources_id = df[j].resources_id
    /\ \E i, j \in DOMAIN df :
          df[i].name = df[j].name /\ df[i].resources_id # df[j].resources_id

\* The predicates of the claims, spelled out character by character.
Spelled(f, word) ==
    /\ IsStr(f)
    /\ Len(f) = Len(word)
    /\ \A k \in DOMAIN word : f[k] \in word[k]
IsCsvOrParquet(f) ==
    \/ Spelled(f, <<{"c", "C"}, {"s", "S"}, {"v", "V"}>>)
    \/ Spelled(f, <<{"p", "P"}, {"a", "A"}, {"r", "R"}, {"q", "Q"},
                    {"u", "U"}, {"e", "E"}, {"t", "T"}>>)
HasTag(r, tag) == \E k \in DOMAIN r.tags.items : r.tags.items[k] = tag
TabularPredicate(r) ==
    IsCsvOrParquet(r.resources_format) /\ ~HasTag(r, geodaten)
GeospatialPredicate(r) ==
    /\ IsStr(r.resources_url)
    /\ \E k \in 1..(Len(r.resources_url) - 6) :
          /\ r.resources_url[k] = "g" /\ r.resources_url[k + 1] = "e"
          /\ r.resources_url[k + 2] = "o" /\ r.resources_url[k + 3] = "j"
          /\ r.resources_url[k + 4] = "s" /\ r.resources_url[k + 5] = "o"
          /\ r.resources_url[k + 6] = "n"
    /\ HasTag(r, stzh)
\* Row r of the table before filter_resources is in the table after it,
\* with the given category.
KeptAs(r, category, after) ==
    \E j \in DOMAIN after : after[j] = [format_filter |-> category] @@ r
FilterStep ==
    pc = "filter_resources" /\ pc' = "prepare_data_for_codebooks"

\* C4: filter_resources takes a row as tabular exactly when its format,
\* lower-cased, is csv or parquet and its tags lack 'geodaten'; a row that
\* is tabular and not geospatial leaves with category table_data, and no
\* row tagged 'geodaten' leaves with category table_data.
C4_TabularClassification ==
    [][FilterStep =>
         /\ \A i \in DOMAIN df :
               /\ IsTableRow(df[i]) <=> TabularPredicate(df[i])
               /\ (TabularPredicate(df[i]) /\ ~GeospatialPredicate(df[i]))
                     => KeptAs(df[i], table_data, df')
         /\ \A j \in DOMAIN df' :
               HasTag(df'[j], geodaten) => df'[j].format_filter # table_data
      ]_vars
C4_Witness ==
    /\ pc = "prepare_data_for_codebooks"
    /\ \E j \in DOMAIN df :
          /\ df[j].resources_format = <<"C", "S", "V">>
          /\ df[j].format_filter = table_data

\* C5: filter_resources gives a row the category geo_data exactly when its
\* URL contains 'geojson' and its tags contain 'stzh'.
C5_GeoClassification ==
    [][FilterStep =>
         /\ \A i \in DOMAIN df :
               KeptAs(df[i], geo_data, df') <=> GeospatialPredicate(df[i])
         /\ \A j \in DOMAIN df' :
               df'[j].format_filter = geo_data
                  => GeospatialPredicate(df'[j])
      ]_vars
C5_Witness ==
    /\ pc = "prepare_data_for_codebooks"
    /\ \E k \in DOMAIN all_packages :
          /\ all_packages[k].resources # <<>>
          /\ all_packages[k].resources[1].url = UrlGeo
          /\ \A t \in DOMAIN all_packages[k].tags.items :
                all_packages[k].tags.items[t].name # stzh
    /\ \A j \in DOMAIN df : df[j].format_filter # geo_data

\* The data lines of an overview document.
DataLines(text) == Cardinality({i \in DOMAIN text : text[i] = "| ["})

\* C6: a row that matches neither predicate is not in the table
\* filter_resources returns; every document written belongs to a row of
\* that table and the overview has one line per row of it; and a run in
\* which no row matches raises nothing after the filter.
C6_UnsupportedRowsLeaveNoTrace ==
    /\ pc \in AfterFilter =>
          \A j \in DOMAIN df :
              TabularPredicate(df[j]) \/ GeospatialPredicate(df[j])
    /\ \A p \in DOMAIN files :
          \/ p \in {ReadmePath, IndexPath}
          \/ \E j \in DOMAIN df : p \in {PythonPath(df[j]), RmarkdownPath(df[j])}
    /\ pc = "done" => DataLines(files[IndexPath]) = Len(df)
    /\ (pc \in AfterFilter /\ df = <<>>) => error = ""
C6_Witness ==
    /\ pc = "done"
    /\ \E k \in DOMAIN all_packages :
          \E n \in DOMAIN all_packages[k].resources :
              /\ all_packages[k].resources[n].id = RidE
              /\ \A j \in DOMAIN df : df[j].resources_id # RidE
    /\ df # <<>>

\* C7: every row leaves classification with one category, geo_data when
\* both predicates hold, and no composite identifier is rendered from the
\* templates of both categories in one run.
C7_OneTemplateFamilyPerStem ==
    /\ pc \in AfterFilter =>
          \A j \in DOMAIN df :
              /\ df[j].format_filter \in {table_data, geo_data}
              /\ (TabularPredicate(df[j]) /\ GeospatialPredicate(df[j]))
                    => df[j].format_filter = geo_data
    /\ pc = "done" =>
          \A i, j \in DOMAIN df :
              FileStem(df[i]) = FileStem(df[j])
                 => df[i].format_filter = df[j].format_filter

FreeTextTokens == {"{{ DATASET_TITLE }}", "{{ DATASET_DESCRIPTION }}",
                   "{{ SSZ_COMMENTS }}"}

\* C8: the text put in place of the title, the description and the remarks
\* holds neither a double quote nor a backslash.
C8_FreeTextEscaped ==
    \A p \in subst :
        p[1] \in FreeTextTokens
           => ~InList("\"", p[2]) /\ ~InList("\\", p[2])

\* C9: rendering a row does not raise on a null field (no TypeError in a
\* loop of create_python_notebooks or create_rmarkdown).
C9_NullFieldsDoNotRaise ==
    pc \in RenderStages => error # "TypeError"

\* C10: a row whose rendering fails does not end the run: when a loop of
\* create_python_notebooks or create_rmarkdown has raised, the overview is
\* still written and so is the notebook of every row that renders cleanly.
C10_RenderFailureDoesNotEndRun ==
    (pc \in RenderStages /\ error # "") =>
        /\ IndexPath \in DOMAIN files
        /\ \A j \in DOMAIN df :
              RenderPython(df[j], IF df[j].format_filter = table_data
                                  THEN TEMPLATE_PYTHON
                                  ELSE TEMPLATE_PYTHON_GEO).err = ""
                 => PythonPath(df[j]) \in DOMAIN files

\* The run is over: the last statement returned or an exception ended it.
Ended == pc = "done" \/ error # ""
\* The rows of the table whose notebook and R Markdown file were written.
RenderedRows ==
    SelectSeq(df, LAMBDA r : /\ PythonPath(r) \in DOMAIN files
                             /\ RmarkdownPath(r) \in DOMAIN files)
\* The last n symbols of a text.
Suffix(text, n) ==
    IF n > Len(text) THEN <<>> ELSE SubSeq(text, Len(text) - n + 1, Len(text))

\* C11: when the run is over and some row's documents were written, the
\* overview exists and its data lines are exactly the lines of the rows
\* whose documents were written, in table order: every rendered row has a
\* line and no other row has one.
C11_OverviewListsRenderedRows ==
    (Ended /\ RenderedRows # <<>>) =>
        /\ IndexPath \in DOMAIN files
        /\ LET lines == Concat(OverviewLines(RenderedRows))
           IN /\ DataLines(files[IndexPath]) = Len(RenderedRows)
              /\ Suffix(files[IndexPath], Len(lines)) = lines

\* The title a row is expected to show: cut to TITLE_MAX_CHARS characters
\* and one ellipsis when longer, itself otherwise.
Abbreviated(title) ==
    IF Len(title) > TITLE_MAX_CHARS
    THEN SubSeq(title, 1, TITLE_MAX_CHARS) \o <<"<ellipsis>">>
    ELSE title
\* The title with every square bracket turned into a space.
Unbracketed(title) ==
    [i \in DOMAIN title |-> IF title[i] \in {"[", "]"} THEN " " ELSE title[i]]
\* The overview has a data line whose link text is exactly shown.
ShownInOverview(shown) ==
    LET text == files[IndexPath]
    IN \E i \in DOMAIN text :
          /\ text[i] = "| ["
          /\ i + Len(shown) + 1 <= Len(text)
          /\ SubSeq(text, i + 1, i + Len(shown) + 1) = shown \o <<"](">>

\* C12 as stated: the overview shows a title longer than TITLE_MAX_CHARS as
\* its first TITLE_MAX_CHARS characters and one ellipsis, and any other
\* title unchanged.
C12_TitleCutOrUnchanged ==
    pc = "done" =>
        \A j \in DOMAIN df : ShownInOverview(Abbreviated(df[j].title))

\* C12 amended: the overview shows the title with its square brackets
\* replaced by spaces, cut to TITLE_MAX_CHARS characters and one ellipsis
\* when longer than TITLE_MAX_CHARS, and not cut otherwise.
C12_UnbracketedTitleCutOrUnchanged ==
    pc = "done" =>
        \A j \in DOMAIN df :
            ShownInOverview(Abbreviated(Unbracketed(df[j].title)))

\* A finished run with a bracketed title longer than TITLE_MAX_CHARS.
C12_Witness ==
    /\ pc = "done"
    /\ \E j \in DOMAIN df :
          /\ Len(df[j].title) > TITLE_MAX_CHARS
          /\ \E i \in DOMAIN df[j].title : df[j].title[i] = "["

\* The statements of the main program from the snapshot to the sorted table.
Pipeline(packages) ==
    LET exploded == dataset_to_resource(packages)
        cleaned == clean_features(exploded.df)
    IN IF exploded.err # "" THEN [err |-> exploded.err, df |-> <<>>]
       ELSE IF cleaned.err # "" THEN [err |-> cleaned.err, df |-> <<>>]
       ELSE [err |-> "",
             df |-> prepare_data_for_codebooks(filter_resources(cleaned.df))]

\* The orders a sequence can be put in.
Reorderings(seq) ==
    {[i \in DOMAIN seq |-> seq[f[i]]] : f \in Permutations(DOMAIN seq)}
\* The snapshots with the same packages and resources in another order.
SnapshotReorderings(packages) ==
    UNION {{[i \in DOMAIN byPackage |->
               [byPackage[i] EXCEPT !.resources = pick[i]]] :
              pick \in {g \in [DOMAIN byPackage ->
                                 UNION {Reorderings(byPackage[k].resources) :
                                          k \in DOMAIN byPackage}] :
                          \A i \in DOMAIN byPackage :
                              g[i] \in Reorderings(byPackage[i].resources)}} :
           byPackage \in Reorderings(packages)}

\* No row sorts before a row that precedes it.
NonDecreasing(data) ==
    \A i, j \in DOMAIN data : i < j => ~RowLess(data[j], data[i])
\* No two rows have the same title, name and resource name.
DistinctSortKeys(data) ==
    \A i, j \in DOMAIN data :
        i # j => RowLess(data[i], data[j]) \/ RowLess(data[j], data[i])
\* The sort has just returned.
JustSorted == pc = "python_table" /\ idx = 1 /\ error = ""
\* Every reordering of the snapshot gives the table the run has.
SameForEveryReordering ==
    \A packages \in SnapshotReorderings(all_packages) :
        Pipeline(packages) = [err |-> "", df |-> df]

\* C13 as stated: the sorted table is in non-decreasing order of (title,
\* name, resource name) and is the same whatever order the snapshot lists
\* its packages and resources in.
C13_SortedAndOrderIndependent ==
    JustSorted => NonDecreasing(df) /\ SameForEveryReordering

\* C13 amended: the sorted table is in non-decreasing order of (title,
\* name, resource name), and when no two rows agree on all three keys it is
\* the same whatever order the snapshot lists its packages and resources in.
C13_SortedAndOrderIndependentWithoutTies ==
    JustSorted =>
        /\ NonDecreasing(df)
        /\ DistinctSortKeys(df) => SameForEveryReordering

\* The sort has put a row first that the snapshot does not list first, in
\* a table of rows with distinct keys.
C13_Witness ==
    /\ JustSorted
    /\ Len(df) >= 2
    /\ DistinctSortKeys(df)
    /\ LET cleaned == clean_features(dataset_to_resource(all_packages).df)
       IN df[1].resources_id # filter_resources(cleaned.df)[1].resources_id

\* The reference join: the texts in order with sep between neighbours.
Join(texts, sep) ==
    Concat([i \in DOMAIN texts |->
              IF i = 1 THEN texts[i] ELSE <<sep>> \o texts[i]])
\* The display names of a list of groups, in list order.
DisplayNames(x) == [i \in DOMAIN x |-> x[i].display_name]
AfterClean == AfterFilter \cup {"filter_resources"}

\* C14: the keywords of every row are the display names of its groups in
\* list order joined by the separator, with no trailing separator, and the
\* empty text for a row without groups.
C14_KeywordsAreTheJoin ==
    pc \in AfterClean =>
        \A j \in DOMAIN df :
            /\ df[j].keywords = Join(DisplayNames(df[j].groups.items), Comma)
            /\ df[j].groups.items = <<>> => df[j].keywords = <<>>

\* Every package of the snapshot lists at least one resource.
NoEmptyPackage ==
    \A k \in DOMAIN all_packages : all_packages[k].resources # <<>>

\* C15: on a snapshot without empty packages, clean_features and
\* filter_resources raise nothing, whether or not a resource names a
\* package of the snapshot and whether or not a tag list is empty; and a
\* row without package fields is not in the table filter_resources returns.
C15_OrphanRowsAreDroppedQuietly ==
    /\ (pc \in {"clean_features", "filter_resources"} /\ NoEmptyPackage)
          => error = ""
    /\ pc \in AfterFilter => \A j \in DOMAIN df : IsStr(df[j].id)

\* The placeholder tokens the two functions replace.
PlaceholderTokens ==
    {"{{ PROVIDER }}", "{{ DOCUMENT_TITLE }}", "{{ TODAY_DATE }}",
     "{{ DATASET_TITLE }}", "{{ DATASET_DESCRIPTION }}", "{{ SSZ_COMMENTS }}",
     "{{ DATASET_IDENTIFIER }}", "{{ DATASET_METADATA }}",
     "{{ DATASHOP_LINK_PROVIDER }}", "{{ CONTACT }}", "{{ FILE_URL }}"}
\* The notebooks and R Markdown files written so far.
RenderedPaths == DOMAIN files \ {ReadmePath, IndexPath}

\* C16: no document written for a row still holds a placeholder token: a
\* document in which a token is left after the substitutions is not
\* written.
C16_NoTokenLeftInWrittenDocument ==
    \A p \in RenderedPaths :
        \A i \in DOMAIN files[p] : files[p][i] \notin PlaceholderTokens

\* The template of a row's category for each of the two functions.
PythonTemplateOf(r) ==
    IF r.format_filter = table_data THEN TEMPLATE_PYTHON
    ELSE TEMPLATE_PYTHON_GEO
RmarkdownTemplateOf(r) ==
    IF r.format_filter = table_data THEN TEMPLATE_RMARKDOWN
    ELSE TEMPLATE_RMARKDOWN_GEO
\* One pass over the template: every token of the map gives way to its
\* value, and the values are not looked at again.
Simultaneous(text, steps) ==
    Concat([i \in DOMAIN text |->
              IF \E k \in DOMAIN steps : steps[k].tok = text[i]
              THEN steps[CHOOSE k \in DOMAIN steps : steps[k].tok = text[i]].val
              ELSE <<text[i]>>])
\* The replace calls of one function on one row, when none of them raises,
\* give the text of the one-pass substitution.
SameAsOnePass(template, steps) ==
    LET s == Substitute(ReadTemplate(template), steps, {})
    IN s.err = "" => s.text = Simultaneous(ReadTemplate(template), steps)

\* C17: for every row of the sorted table and both functions, the replace
\* calls in sequence give the text that one simultaneous substitution of
\* the token-to-value map gives.
C17_SequentialEqualsOnePass ==
    pc \in AfterSort =>
        \A j \in DOMAIN df :
            /\ SameAsOnePass(PythonTemplateOf(df[j]), PythonSteps(df[j]))
            /\ SameAsOnePass(RmarkdownTemplateOf(df[j]),
                             RmarkdownSteps(df[j]))

\* The statements of the main program in program order.
StageOrder ==
    <<"get_full_package_list", "dataset_to_resource", "clean_features",
      "filter_resources", "prepare_data_for_codebooks", "python_table",
      "rmarkdown_table", "python_geo", "rmarkdown_geo", "create_readme",
      "create_overview", "done">>
Rank(stmt) == CHOOSE k \in DOMAIN StageOrder : StageOrder[k] = stmt
\* The table a loop of create_* runs over.
LoopData(stmt) ==
    IF stmt \in {"python_table", "rmarkdown_table"} THEN df_tabledata
    ELSE df_geodata

\* One step of the run keeps the program order: the statement stays or the
\* next one starts, never an earlier one; the fetch ends only on the empty
\* page with every page read in offset order; a loop of create_* ends only
\* after its last row; and from dataset_to_resource on the snapshot is the
\* whole catalogue in the order served.
StagesInOrder ==
    /\ Rank(pc') \in {Rank(pc), Rank(pc) + 1}
    /\ (pc = "get_full_package_list" /\ pc' # pc) =>
          /\ Page(offset) = <<>>
          /\ Concat(frames) = catalog
          /\ \A k \in DOMAIN frames : frames[k] = Page((k - 1) * Limit)
    /\ pc' # "get_full_package_list" => all_packages' = catalog
    /\ (pc \in RenderStages /\ pc' # pc) => idx > Len(LoopData(pc))
    /\ (pc' # pc /\ pc' \in AfterClean) =>
          \A j \in DOMAIN df' : "keywords" \in DOMAIN df'[j]
    /\ (pc' # pc /\ pc' \in AfterSort) =>
          \A j \in DOMAIN df' : "metadata" \in DOMAIN df'[j]

\* C18: every step of every run keeps the order fetch, explode, normalize,
\* classify, sort, render, overview: no statement is entered again after a
\* later one has started, the whole snapshot is read before
\* dataset_to_resource starts, and each stage is done with the table before
\* the next one starts.
C18_StagesRunOnceInOrder == [][StagesInOrder]_vars

\* A finished run that read more than one page and rendered rows of both
\* categories.
C18_Witness ==
    /\ pc = "done"
    /\ Len(frames) >= 2
    /\ df_tabledata # <<>>
    /\ df_geodata # <<>>

=============================================================================
